---------------------------- MODULE Spec2Model ----------------------------
(***************************************************************************)
(* Upper half of the CAN character driver (drivers/can.c).                 *)
(*                                                                         *)
(* The driver state is struct can_dev_s: the transmit FIFO cd_xmit with    *)
(* its three indices, the receive FIFO cd_recv, the waiter counts, the     *)
(* open count and cd_closesem, the sticky error byte and the table of      *)
(* pending RTR waiters.  Code that runs between enter_critical_section()   *)
(* and the next sem_wait() or leave_critical_section() is one atomic step: *)
(* interrupts are disabled and no other thread runs.  A thread that blocks *)
(* in sem_wait() gives the critical section up and keeps its local         *)
(* variables until it runs again.                                          *)
(***************************************************************************)
EXTENDS Integers, Sequences, FiniteSets, TLC

VARIABLES
  config,         \* compile-time configuration (CONFIG_CAN_*), fixed by Init
  cd_ocount,      \* dev->cd_ocount, uint8_t
  cd_closesem,    \* dev->cd_closesem: [count, waitq]
  cd_xmit,        \* dev->cd_xmit: tx_sem, tx_head, tx_queue, tx_tail, tx_buffer
  cd_ntxwaiters,  \* dev->cd_ntxwaiters
  cd_recv,        \* dev->cd_recv: rx_sem, rx_head, rx_tail, rx_buffer
  cd_nrxwaiters,  \* dev->cd_nrxwaiters
  cd_error,       \* dev->cd_error (CONFIG_CAN_ERRORS)
  cd_npendrtr,    \* dev->cd_npendrtr
  cd_rtr,         \* dev->cd_rtr[]: cr_sem, cr_id, cr_msg
  cd_work,        \* dev->cd_work: TRUE while can_txready_work is queued
  lower,          \* state of the lower half driver and of the CAN hardware
  task,           \* the user threads: position and local variables
  obs             \* observations: what was appended, sent, read, returned

vars == << config, cd_ocount, cd_closesem, cd_xmit, cd_ntxwaiters, cd_recv,
           cd_nrxwaiters, cd_error, cd_npendrtr, cd_rtr, cd_work, lower,
           task, obs >>

gate   == << cd_ocount, cd_closesem >>
txside == << cd_xmit, cd_ntxwaiters >>
rxside == << cd_recv, cd_nrxwaiters, cd_error, cd_npendrtr, cd_rtr >>

-----------------------------------------------------------------------------
(* Bounds of the model *)

MaxFifoSize == 3     \* CONFIG_CAN_FIFOSIZE ranges over 2..MaxFifoSize
MaxTxFrames == 2     \* frames one thread submits to write() in all
MaxBurst    == 2     \* frames in one write() buffer
HwDepth     == 1     \* frames the CAN hardware holds before it is busy
MaxFaults   == 1     \* dev_send() failures the lower half may produce
MaxRxFrames == 3     \* frames the lower half receives in all
MaxOpens    == 2     \* descriptors one thread holds open at a time
MaxOpenCalls == 4    \* open() calls in all
MaxRtrCalls == 3     \* ioctl(CANIOC_RTR) calls in all
MaxSigInputs == 1    \* received frames and RTR calls where all calls mix

Tasks == {1, 2}

-----------------------------------------------------------------------------
(* errno values and sizes from headers outside drivers/can.c *)

OK      == 0
EINTR   == 4
EIO     == 5
EAGAIN  == 11
ENOMEM  == 12
EBUSY   == 16
EMFILE  == 24
ENOENT  == 2

UINT8_MAX == 255     \* cd_ocount is a uint8_t

CAN_HDRLEN == 2      \* sizeof(struct can_hdr_s): "the 16-bit CAN header"

CAN_MSGLEN(nbytes) == CAN_HDRLEN + nbytes

-----------------------------------------------------------------------------
(* can_dlc2bytes, can_bytes2dlc *)

can_dlc2bytes(fd, dlc) ==
  IF dlc > 8
  THEN IF fd
       THEN CASE dlc = 9  -> 12
              [] dlc = 10 -> 16
              [] dlc = 11 -> 20
              [] dlc = 12 -> 24
              [] dlc = 13 -> 32
              [] dlc = 14 -> 48
              [] OTHER    -> 64
       ELSE 8
  ELSE dlc

\* variant: 13 bytes still go with the DLC for 12
can_bytes2dlc_13(fd, nbytes) ==
  IF nbytes <= 8 THEN nbytes
  ELSE IF fd
       THEN IF nbytes <= 13 THEN 9
            ELSE IF nbytes <= 16 THEN 10
            ELSE IF nbytes <= 20 THEN 11
            ELSE IF nbytes <= 24 THEN 12
            ELSE IF nbytes <= 32 THEN 13
            ELSE IF nbytes <= 48 THEN 14
            ELSE 15
       ELSE 8

can_bytes2dlc(fd, nbytes) ==
  IF nbytes <= 8 THEN nbytes
  ELSE IF fd
       THEN IF nbytes <= 12 THEN 9
            ELSE IF nbytes <= 16 THEN 10
            ELSE IF nbytes <= 20 THEN 11
            ELSE IF nbytes <= 24 THEN 12
            ELSE IF nbytes <= 32 THEN 13
            ELSE IF nbytes <= 48 THEN 14
            ELSE 15
       ELSE 8

-----------------------------------------------------------------------------
(* Semaphores.  A NuttX semaphore hands a post directly to the thread at   *)
(* the head of its wait list; a post with no waiter raises the count.  A   *)
(* thread that has been handed the post (or was interrupted by a signal)   *)
(* is no longer in waitq and runs on when it is scheduled.                 *)

sem_init(n) == [count |-> n, waitq |-> << >>]

sem_post(sem) ==
  IF sem.waitq # << >>
  THEN [sem EXCEPT !.waitq = Tail(@)]
  ELSE [sem EXCEPT !.count = @ + 1]

InQueue(sem, t) == \E i \in 1..Len(sem.waitq) : sem.waitq[i] = t

Without(q, t) == SelectSeq(q, LAMBDA u : u # t)

-----------------------------------------------------------------------------
(* Messages *)

Payload(tag, n) == [i \in 1..n |-> tag]

NoMsg == [ch_id |-> 0, ch_dlc |-> 0, ch_error |-> 0, cm_data |-> << >>]

Inc(i) == IF i + 1 >= config.fifosize THEN 0 ELSE i + 1

-----------------------------------------------------------------------------
(* The lower half.  lower.hw holds the frames the hardware accepted and    *)
(* has not yet completed.  With lower.sync the lower half has a H/W TX     *)
(* FIFO and dev_send() calls can_txdone() before it returns; without, the  *)
(* interrupt handler calls can_txdone() when the frame has been sent.      *)
(* lower.failnext makes the next dev_send() fail; lower.depth is the       *)
(* number of frames the hardware holds before dev_txready() is false.      *)

dev_txready(d) == Len(d.lo.hw) < d.lo.depth

dev_txempty(d) == d.lo.hw = << >>

\* The operators below pass the device state d along:
\*   d.x = cd_xmit, d.nw = cd_ntxwaiters, d.lo = lower, d.o = obs,
\*   d.ret = the value the last call returned.
Dev == [x |-> cd_xmit, nw |-> cd_ntxwaiters, lo |-> lower, o |-> obs, ret |-> 0]

RECURSIVE can_xmit(_), xmit_loop(_), can_txdone(_), dev_send(_, _)

dev_send(d, ndx) ==
  LET msg == d.x.tx_buffer[ndx]
      d1  == [d EXCEPT !.o.sent = Append(@, msg)]
  IN  IF d1.lo.failnext
      THEN [d1 EXCEPT !.lo.failnext = FALSE, !.ret = 0 - EIO]
      ELSE LET d2 == [d1 EXCEPT !.lo.hw = Append(@, msg)]
           IN  IF d2.lo.sync
               THEN [can_txdone(d2) EXCEPT !.ret = OK]
               ELSE [d2 EXCEPT !.ret = OK]

\* variant: tx_queue is advanced when dev_send() has returned
xmit_loop_late(d) ==
  IF d.x.tx_queue # d.x.tx_tail /\ dev_txready(d)
  THEN LET tmpndx == d.x.tx_queue
           d1 == [d EXCEPT !.o.asserted = @ \/ (d.x.tx_head = d.x.tx_tail)]
           d2 == dev_send(d1, tmpndx)
           d3 == [d2 EXCEPT !.x.tx_queue = Inc(@)]
       IN  IF d3.ret # OK THEN d3 ELSE xmit_loop(d3)
  ELSE d

xmit_loop(d) ==
  IF d.x.tx_queue # d.x.tx_tail /\ dev_txready(d)
  THEN LET tmpndx == d.x.tx_queue
           d1 == [d EXCEPT !.o.asserted = @ \/ (d.x.tx_head = d.x.tx_tail),
                           !.x.tx_queue = Inc(@)]
           d2 == dev_send(d1, tmpndx)
       IN  IF d2.ret # OK THEN d2 ELSE xmit_loop(d2)
  ELSE d

can_xmit(d) ==
  IF d.x.tx_head = d.x.tx_tail
  THEN [d EXCEPT !.o.asserted = @ \/ (d.x.tx_queue # d.x.tx_head),
                 !.lo.txint = IF config.txready THEN @ ELSE FALSE,
                 !.ret = 0 - EIO]
  ELSE [xmit_loop([d EXCEPT !.ret = 0 - EBUSY]) EXCEPT !.lo.txint = TRUE]

can_txdone(d) ==
  IF d.x.tx_head # d.x.tx_tail
  THEN LET d1 == [d EXCEPT !.o.asserted = @ \/ (d.x.tx_head = d.x.tx_queue),
                           !.x.tx_head = Inc(@),
                           !.o.ndone = @ + 1]
           d2 == can_xmit(d1)
       IN  IF d2.nw > 0
           THEN [d2 EXCEPT !.x.tx_sem = sem_post(@), !.ret = OK]
           ELSE [d2 EXCEPT !.ret = OK]
  ELSE [d EXCEPT !.ret = 0 - ENOENT]

can_txready_work(d) ==
  IF d.x.tx_head # d.x.tx_tail
  THEN LET d1 == can_xmit(d)
       IN  IF d1.ret >= 0 /\ d1.nw > 0
           THEN [d1 EXCEPT !.x.tx_sem = sem_post(@)]
           ELSE d1
  ELSE d

\* variant: the work is queued whether or not the handle is free
can_txready_requeue(d, work) ==
  IF d.x.tx_head # d.x.tx_tail
  THEN [ret |-> OK, work |-> TRUE, nq |-> 1]
  ELSE [ret |-> 0 - ENOENT, work |-> work, nq |-> 0]

\* can_txready: the value returned, whether the work is queued after it,
\* and the number of work_queue() calls made
can_txready(d, work) ==
  IF d.x.tx_head # d.x.tx_tail
  THEN IF ~work
       THEN [ret |-> OK, work |-> TRUE, nq |-> 1]
       ELSE [ret |-> 0 - EBUSY, work |-> work, nq |-> 0]
  ELSE [ret |-> 0 - ENOENT, work |-> work, nq |-> 0]

-----------------------------------------------------------------------------
(* User threads.  task[t].pc is "idle" between calls (ret then holds what  *)
(* the last call returned and app the frames it appended) or names the     *)
(* sem_wait() the thread is blocked in.  After a write, inactive is the    *)
(* value the call's local variable had at the return, and kick tells       *)
(* whether the call has called can_xmit() since its last append.           *)

IdleTask ==
  [pc |-> "idle", op |-> "none", ret |-> 0, nonblock |-> FALSE, intr |-> FALSE,
   buf |-> << >>, buflen |-> 0, nsent |-> 0, nfr |-> 0, inactive |-> FALSE,
   nexttail |-> 0, nsub |-> 0, app |-> << >>, got |-> << >>,
   rmsg |-> NoMsg, nopen |-> 0, ci_id |-> 0, ci_msg |-> 0, slot |-> 0,
   kick |-> FALSE]

BufLen(fd, buf, n) ==
  IF n = 0 THEN 0
  ELSE LET S[i \in 0..n] ==
             IF i = 0 THEN 0
             ELSE S[i - 1] + CAN_MSGLEN(can_dlc2bytes(fd, buf[i].ch_dlc))
       IN  S[n]

-----------------------------------------------------------------------------
(* can_write.  w holds the caller's locals; the result is the device state *)
(* and the locals at the point where the call returns or blocks.           *)

RECURSIVE write_loop(_, _, _), write_full(_, _, _), write_wait(_, _, _)

write_return(d, w, ret) ==
  [d |-> d,
   w |-> [IdleTask EXCEPT !.op = w.op, !.ret = ret, !.app = w.app,
                          !.nsub = w.nsub, !.nopen = w.nopen,
                          !.rmsg = w.rmsg, !.inactive = w.inactive,
                          !.kick = w.kick]]

\* lines 817-832: copy the message to tx_buffer[tx_tail], advance tx_tail
write_append(d, w) ==
  LET msg    == w.buf[w.nfr + 1]
      nbytes == can_dlc2bytes(config.fd, msg.ch_dlc)
      msglen == CAN_MSGLEN(nbytes)
  IN  [d |-> [d EXCEPT !.x.tx_buffer[d.x.tx_tail] = msg,
                       !.x.tx_tail = w.nexttail,
                       !.o.written = Append(@, msg)],
       w |-> [w EXCEPT !.nsent = @ + msglen, !.nfr = @ + 1,
                       !.app = Append(@, msg), !.kick = FALSE]]

\* lines 797-810: cd_ntxwaiters++; sem_wait(&fifo->tx_sem)
write_wait(d, w, t) ==
  LET d1 == [d EXCEPT !.nw = @ + 1,
                      !.o.asserted = @ \/ ~(d.nw < 255)]
  IN  IF d1.x.tx_sem.count > 0
      THEN \* the wait returns at once; cd_ntxwaiters--; line 814
           LET d2 == [d1 EXCEPT !.x.tx_sem.count = @ - 1, !.nw = @ - 1]
           IN  write_full(d2, [w EXCEPT !.inactive = dev_txempty(d2)], t)
      ELSE [d |-> [d1 EXCEPT !.x.tx_sem.waitq = Append(@, t)],
            w |-> [w EXCEPT !.pc = "tx_wait"]]

\* variant: a full FIFO is reported as a count, also when the count is 0
write_nonblock_zero(d, w) == write_return(d, w, w.nsent)

\* lines 771-783: the FIFO is full and O_NONBLOCK is set
write_nonblock(d, w) ==
  write_return(d, w, IF w.nsent = 0 THEN 0 - EAGAIN ELSE w.nsent)

\* lines 767-815: while (nexttail == fifo->tx_head)
write_full(d, w, t) ==
  IF w.nexttail = d.x.tx_head
  THEN IF w.nonblock
       THEN write_nonblock(d, w)
       ELSE IF w.inactive
            THEN write_wait(can_xmit(d), [w EXCEPT !.kick = TRUE], t)
            ELSE write_wait(d, w, t)
  ELSE LET a == write_append(d, w) IN write_loop(a.d, a.w, t)

\* lines 753-846: while ((buflen - nsent) >= CAN_MSGLEN(0))
write_loop(d, w, t) ==
  IF w.buflen - w.nsent >= CAN_MSGLEN(0)
  THEN write_full(d, [w EXCEPT !.nexttail = Inc(d.x.tx_tail)], t)
  ELSE IF w.inactive
       THEN write_return(can_xmit(d), [w EXCEPT !.kick = TRUE], w.nsent)
       ELSE write_return(d, w, w.nsent)

\* lines 739-747: entry
can_write(d, w, t) == write_loop(d, [w EXCEPT !.inactive = dev_txempty(d)], t)

\* the thread runs again after sem_wait(): with a post (ret = OK) or
\* interrupted by a signal (ret < 0, errno = EINTR: wait again)
write_resume(d, w, t) ==
  LET d1 == [d EXCEPT !.nw = @ - 1]
  IN  IF w.intr
      THEN write_wait(d1, [w EXCEPT !.intr = FALSE], t)
      ELSE write_full(d1, [w EXCEPT !.inactive = dev_txempty(d1)], t)

SetTx(r) ==
  /\ cd_xmit' = r.x
  /\ cd_ntxwaiters' = r.nw
  /\ lower' = r.lo
  /\ obs' = r.o

\* the frames thread t hands to write(): ids that tell the frames apart,
\* data lengths that differ from one frame to the next
UserMsg(id) ==
  [ch_id |-> id, ch_dlc |-> id % 2, ch_error |-> 0,
   cm_data |-> Payload(id, can_dlc2bytes(config.fd, id % 2))]

UserBuf(t, first, n) == [i \in 1..n |-> UserMsg(10 * t + first + i)]

WriteCall(t, n, nonblock, trailing) ==
  /\ cd_ocount > 0
  /\ task[t].pc = "idle"
  /\ LET buf == UserBuf(t, task[t].nsub, n)
         w   == [IdleTask EXCEPT !.op = "write", !.nonblock = nonblock,
                   !.buf = buf,
                   !.buflen = BufLen(config.fd, buf, n) + trailing,
                   !.nsub = task[t].nsub + n,
                   !.nopen = task[t].nopen, !.rmsg = task[t].rmsg]
         r   == can_write(Dev, w, t)
     IN  /\ SetTx(r.d)
         /\ task' = [task EXCEPT ![t] = r.w]
  /\ UNCHANGED << config, gate, rxside, cd_work >>

\* a buffer of n whole frames; a non-blocking caller may also pass a
\* buffer that ends with a part of a header
WriteUpTo(t, max) ==
  \E n \in 1..MaxBurst, nonblock \in BOOLEAN, trailing \in 0..(CAN_MSGLEN(0) - 1) :
    /\ trailing > 0 => nonblock
    /\ task[t].nsub + n <= max
    /\ WriteCall(t, n, nonblock, trailing)

Write(t) == WriteUpTo(t, MaxTxFrames)

\* one more frame for each thread
WriteLong(t) == WriteUpTo(t, MaxTxFrames + 1)

WriteResume(t) ==
  /\ task[t].pc = "tx_wait"
  /\ ~InQueue(cd_xmit.tx_sem, t)
  /\ LET r == write_resume(Dev, task[t], t)
     IN  /\ SetTx(r.d)
         /\ task' = [task EXCEPT ![t] = r.w]
  /\ UNCHANGED << config, gate, rxside, cd_work >>

\* a signal interrupts the wait: sem_wait() will return -1 with EINTR
WriteSignal(t) ==
  /\ task[t].pc = "tx_wait"
  /\ InQueue(cd_xmit.tx_sem, t)
  /\ cd_xmit' = [cd_xmit EXCEPT !.tx_sem.waitq = Without(@, t)]
  /\ task' = [task EXCEPT ![t].intr = TRUE]
  /\ UNCHANGED << config, gate, cd_ntxwaiters, rxside, cd_work, lower, obs >>

-----------------------------------------------------------------------------
(* The CAN interrupt and the worker thread *)

\* the hardware has sent a frame; without a H/W FIFO the handler calls
\* can_txdone(), with one it calls can_txready() when that is built in.
\* obs.nwork counts the work items queued and not yet run, obs.refused
\* tells whether can_txready() has returned -EBUSY since the last of them
\* was queued.
TxInterrupt ==
  /\ lower.hw # << >>
  /\ LET d == [Dev EXCEPT !.lo.hw = Tail(@)]
         r == can_txready(d, cd_work)
     IN  IF ~lower.sync
         THEN SetTx(can_txdone(d)) /\ UNCHANGED cd_work
         ELSE IF config.txready
              THEN /\ SetTx([d EXCEPT !.o.nwork = @ + r.nq,
                                      !.o.refused = @ \/ (r.ret = 0 - EBUSY)])
                   /\ cd_work' = r.work
              ELSE SetTx(d) /\ UNCHANGED cd_work
  /\ UNCHANGED << config, gate, rxside, task >>

\* the worker thread takes the work off its queue and runs it
TxReadyWork ==
  /\ cd_work
  /\ cd_work' = FALSE
  /\ SetTx(can_txready_work([Dev EXCEPT !.o.nwork = @ - 1,
                                        !.o.refused = FALSE]))
  /\ UNCHANGED << config, gate, rxside, task >>

\* the hardware refuses the next frame handed to it
SendFault ==
  /\ ~lower.failnext
  /\ lower.nfaults < MaxFaults
  /\ lower' = [lower EXCEPT !.failnext = TRUE, !.nfaults = @ + 1]
  /\ UNCHANGED << config, gate, txside, rxside, cd_work, task, obs >>

-----------------------------------------------------------------------------
(* can_receive.  The lower half passes the header and a pointer to the     *)
(* data; mem is the memory at that pointer: the frame's data bytes,        *)
(* followed by whatever lies behind them.  The operators pass r along:     *)
(*   r.rc = cd_recv, r.nrw = cd_nrxwaiters, r.err = cd_error,              *)
(*   r.rtr = cd_rtr, r.npend = cd_npendrtr, r.tk = task, r.o = obs.        *)

NULL == 0

CAN_ERROR_DLC         == 8
CAN_ERROR_INTERNAL    == 512
CAN_ERROR5_RXOVERFLOW == 1

CONFIG_CAN_NPENDINGRTR == 2

Rcv == [rc |-> cd_recv, nrw |-> cd_nrxwaiters, err |-> cd_error,
        rtr |-> cd_rtr, npend |-> cd_npendrtr, tk |-> task, o |-> obs,
        ret |-> 0]

\* x | bit, for the one-bit flag the driver sets
BitOr(x, bit) == IF (x \div bit) % 2 = 1 THEN x ELSE x + bit

Stored(hdr, mem, off, nbytes) ==
  [ch_id |-> hdr.ch_id, ch_dlc |-> hdr.ch_dlc, ch_error |-> hdr.ch_error,
   cm_data |-> [j \in 1..nbytes |-> mem[off + j]]]

\* lines 1043-1075: the scan of the pending RTR list.  i is the loop
\* counter, which the copy loop at line 1061 uses as well; off counts how
\* far the data pointer has been advanced.
RECURSIVE rtr_scan(_, _, _, _, _)

rtr_scan(r, i, hdr, mem, off) ==
  IF i >= CONFIG_CAN_NPENDINGRTR
  THEN [r |-> r, off |-> off]
  ELSE LET rtr == r.rtr[i]
           msg == rtr.cr_msg
       IN  IF msg # NULL /\ hdr.ch_id = rtr.cr_id
           THEN LET nbytes == can_dlc2bytes(config.fd, hdr.ch_dlc)
                    r1 == [r EXCEPT
                             !.tk[msg].rmsg = Stored(hdr, mem, off, nbytes),
                             !.rtr[i].cr_msg = NULL,
                             !.npend = @ - 1,
                             !.rtr[i].cr_sem = sem_post(@)]
                IN  rtr_scan(r1, nbytes + 1, hdr, mem, off + nbytes)
           ELSE rtr_scan(r, i + 1, hdr, mem, off)

\* variant: the index is advanced before the message is stored
rx_append_early(r, msg, nexttail) ==
  LET r2 == [r EXCEPT !.rc.rx_buffer[nexttail] = msg,
                      !.rc.rx_tail = nexttail,
                      !.o.accepted = Append(@, msg)]
  IN  IF r2.nrw > 0
      THEN [r2 EXCEPT !.rc.rx_sem = sem_post(@), !.ret = OK]
      ELSE [r2 EXCEPT !.ret = OK]

\* lines 1080-1117: add the message at the tail of the FIFO, wake a reader
rx_append(r, msg, nexttail) ==
  LET r2 == [r EXCEPT !.rc.rx_buffer[r.rc.rx_tail] = msg,
                      !.rc.rx_tail = nexttail,
                      !.o.accepted = Append(@, msg)]
  IN  IF r2.nrw > 0
      THEN [r2 EXCEPT !.rc.rx_sem = sem_post(@), !.ret = OK]
      ELSE [r2 EXCEPT !.ret = OK]

\* variant: the overflow is not recorded in cd_error
rx_overflow_nolatch(r) == [r EXCEPT !.ret = 0 - ENOMEM]

\* variant: readers are woken for the dropped frame as well
rx_overflow_post(r) ==
  IF config.errors
  THEN [r EXCEPT !.err = BitOr(@, CAN_ERROR5_RXOVERFLOW),
                 !.rc.rx_sem = sem_post(@), !.ret = 0 - ENOMEM]
  ELSE [r EXCEPT !.rc.rx_sem = sem_post(@), !.ret = 0 - ENOMEM]

\* lines 1118-1127: the FIFO is full; ret was initialised to -ENOMEM
rx_overflow(r) ==
  IF config.errors
  THEN [r EXCEPT !.err = BitOr(@, CAN_ERROR5_RXOVERFLOW), !.ret = 0 - ENOMEM]
  ELSE [r EXCEPT !.ret = 0 - ENOMEM]

can_receive(r, hdr, mem) ==
  LET nexttail == Inc(r.rc.rx_tail)
      s   == IF r.npend > 0
             THEN rtr_scan(r, 0, hdr, mem, 0)
             ELSE [r |-> r, off |-> 0]
      r1  == s.r
  IN  IF nexttail # r1.rc.rx_head
      THEN LET nbytes == can_dlc2bytes(config.fd, hdr.ch_dlc)
           IN  rx_append(r1, Stored(hdr, mem, s.off, nbytes), nexttail)
      ELSE rx_overflow(r1)

SetRx(r) ==
  /\ cd_recv' = r.rc
  /\ cd_nrxwaiters' = r.nrw
  /\ cd_error' = r.err
  /\ cd_rtr' = r.rtr
  /\ cd_npendrtr' = r.npend

\* what lies in memory behind the data bytes of a received frame
JunkBytes == {0, 170}

\* the n-th frame is long when n is odd, short when n is even
RxDlc(id) == IF id % 2 = 1 THEN 9 ELSE 1

\* the CAN interrupt with a received frame: the n-th frame has id n
Receive ==
  /\ lower.rxint
  /\ lower.nrx < MaxRxFrames
  /\ \E junk \in JunkBytes :
       LET id     == lower.nrx + 1
           dlc    == RxDlc(id)
           nbytes == can_dlc2bytes(config.fd, dlc)
           hdr    == [ch_id |-> id, ch_dlc |-> dlc, ch_error |-> 0]
           mem    == [j \in 1..(nbytes * (CONFIG_CAN_NPENDINGRTR + 1)) |->
                        IF j <= nbytes THEN id ELSE junk]
           r      == can_receive(Rcv, hdr, mem)
       IN  /\ SetRx(r)
           /\ task' = r.tk
           /\ obs' = [r.o EXCEPT
                        !.rxrun = IF cd_recv.rx_head = cd_recv.rx_tail
                                  THEN << r.ret >>
                                  ELSE IF @ = << >> THEN @
                                       ELSE Append(@, r.ret)]
           /\ lower' = [lower EXCEPT !.nrx = @ + 1, !.rxret = r.ret]
  /\ UNCHANGED << config, gate, txside, cd_work >>

-----------------------------------------------------------------------------
(* can_read *)

\* variant: the error byte is stored one byte further on
ErrorMsg_byte6(error) ==
  [ch_id |-> CAN_ERROR_INTERNAL, ch_dlc |-> CAN_ERROR_DLC, ch_error |-> 1,
   cm_data |-> [j \in 1..CAN_ERROR_DLC |-> IF j = 7 THEN error ELSE 0]]

\* lines 540-547: the error frame; cm_data[5] is the sixth byte
ErrorMsg(error) ==
  [ch_id |-> CAN_ERROR_INTERNAL, ch_dlc |-> CAN_ERROR_DLC, ch_error |-> 1,
   cm_data |-> [j \in 1..CAN_ERROR_DLC |-> IF j = 6 THEN error ELSE 0]]

read_return(r, w, ret) ==
  [r |-> r,
   w |-> [IdleTask EXCEPT !.op = w.op, !.ret = ret, !.got = w.got,
                          !.nsub = w.nsub, !.nopen = w.nopen,
                          !.rmsg = w.rmsg]]

\* variant: the message at rx_head is copied whether it fits or not
read_copy_nofit(r, w, nread) ==
  LET msg    == r.rc.rx_buffer[r.rc.rx_head]
      nbytes == can_dlc2bytes(config.fd, msg.ch_dlc)
      msglen == CAN_MSGLEN(nbytes)
  IN  read_return([r EXCEPT !.rc.rx_head = Inc(@),
                            !.o.delivered = Append(@, msg)],
                  [w EXCEPT !.got = Append(@, msg)], nread + msglen)

\* lines 595-627: copy all buffered messages that fit in the user buffer
RECURSIVE read_copy(_, _, _)

read_copy(r, w, nread) ==
  LET msg    == r.rc.rx_buffer[r.rc.rx_head]
      nbytes == can_dlc2bytes(config.fd, msg.ch_dlc)
      msglen == CAN_MSGLEN(nbytes)
  IN  IF nread + msglen > w.buflen
      THEN read_return(r, w, nread)
      ELSE LET r1 == [r EXCEPT !.rc.rx_head = Inc(@),
                               !.o.delivered = Append(@, msg)]
               w1 == [w EXCEPT !.got = Append(@, msg)]
           IN  IF r1.rc.rx_head # r1.rc.rx_tail
               THEN read_copy(r1, w1, nread + msglen)
               ELSE read_return(r1, w1, nread + msglen)

\* lines 575-588: cd_nrxwaiters++; do sem_wait() while the FIFO is empty
RECURSIVE read_wait(_, _, _)

read_wait(r, w, t) ==
  IF r.rc.rx_sem.count > 0
  THEN LET r1 == [r EXCEPT !.rc.rx_sem.count = @ - 1]
       IN  IF r1.rc.rx_head = r1.rc.rx_tail
           THEN read_wait(r1, w, t)
           ELSE read_copy([r1 EXCEPT !.nrw = @ - 1], w, 0)
  ELSE [r |-> [r EXCEPT !.rc.rx_sem.waitq = Append(@, t)],
        w |-> [w EXCEPT !.pc = "rx_wait"]]

\* lines 563-589: while (rx_head == rx_tail)
read_empty(r, w, t) ==
  IF r.rc.rx_head = r.rc.rx_tail
  THEN IF w.nonblock
       THEN read_return(r, w, 0 - EAGAIN)
       ELSE read_wait([r EXCEPT !.nrw = @ + 1], w, t)
  ELSE read_copy(r, w, 0)

can_read(r, w, t) ==
  IF w.buflen >= CAN_MSGLEN(0)
  THEN IF config.errors /\ r.err # 0
       THEN IF w.buflen < CAN_MSGLEN(CAN_ERROR_DLC)
            THEN read_return(r, w, 0)
            ELSE read_return([r EXCEPT !.err = 0,
                                       !.o.delivered = Append(@, ErrorMsg(r.err))],
                             [w EXCEPT !.got = << ErrorMsg(r.err) >>],
                             CAN_MSGLEN(CAN_ERROR_DLC))
       ELSE read_empty(r, w, t)
  ELSE read_return(r, w, 0)

\* variant: an interrupted wait is taken up again
read_resume_retry(r, w, t) ==
  IF r.rc.rx_head = r.rc.rx_tail
  THEN read_wait(r, [w EXCEPT !.intr = FALSE], t)
  ELSE read_copy([r EXCEPT !.nrw = @ - 1], w, 0)

\* the thread runs again after sem_wait(): with a post, or interrupted by
\* a signal (ret < 0: cd_nrxwaiters--, return -errno)
read_resume(r, w, t) ==
  IF w.intr
  THEN read_return([r EXCEPT !.nrw = @ - 1], w, 0 - EINTR)
  ELSE IF r.rc.rx_head = r.rc.rx_tail
       THEN read_wait(r, w, t)
       ELSE read_copy([r EXCEPT !.nrw = @ - 1], w, 0)

ReadLens == {1, 3, 10, 20}

ReadCall(t, buflen, nonblock) ==
  /\ cd_ocount > 0
  /\ task[t].pc = "idle"
  /\ LET w == [IdleTask EXCEPT !.op = "read", !.nonblock = nonblock,
                 !.buflen = buflen, !.nsub = task[t].nsub,
                 !.nopen = task[t].nopen, !.rmsg = task[t].rmsg]
         a == can_read(Rcv, w, t)
     IN  /\ task' = [task EXCEPT ![t] = a.w]
         /\ SetRx(a.r)
         /\ obs' = [a.r.o EXCEPT !.rxrun = << >>]
  /\ UNCHANGED << config, gate, txside, cd_work, lower >>

Read(t) == \E buflen \in ReadLens, nonblock \in BOOLEAN : ReadCall(t, buflen, nonblock)

ReadResume(t) ==
  /\ task[t].pc = "rx_wait"
  /\ ~InQueue(cd_recv.rx_sem, t)
  /\ LET a == read_resume(Rcv, task[t], t)
     IN  /\ SetRx(a.r)
         /\ task' = [task EXCEPT ![t] = a.w]
         /\ obs' = [a.r.o EXCEPT !.rxrun = << >>]
  /\ UNCHANGED << config, gate, txside, cd_work, lower >>

ReadSignal(t) ==
  /\ task[t].pc = "rx_wait"
  /\ InQueue(cd_recv.rx_sem, t)
  /\ cd_recv' = [cd_recv EXCEPT !.rx_sem.waitq = Without(@, t)]
  /\ task' = [task EXCEPT ![t].intr = TRUE]
  /\ UNCHANGED << config, gate, txside, cd_nrxwaiters, cd_error, cd_npendrtr,
                  cd_rtr, cd_work, lower, obs >>

-----------------------------------------------------------------------------
(* can_rtrread, reached through can_ioctl(CANIOC_RTR).  The request holds  *)
(* ci_id and ci_msg, a pointer to the caller's message: NULL, or t for the *)
(* message task[t].rmsg of the calling thread.                             *)

NoSlot == CONFIG_CAN_NPENDINGRTR

\* lines 878-889: the scan for an available slot; the test at line 881 is
\* on the request's ci_msg
RECURSIVE rtr_find(_, _)

rtr_find(i, ci_msg) ==
  IF i >= CONFIG_CAN_NPENDINGRTR THEN NoSlot
  ELSE IF ci_msg = NULL THEN i
  ELSE rtr_find(i + 1, ci_msg)

rtr_return(r, w, ret) ==
  [r |-> r,
   w |-> [IdleTask EXCEPT !.op = "rtr", !.ret = ret, !.nsub = w.nsub,
                          !.nopen = w.nopen, !.rmsg = w.rmsg,
                          !.ci_id = w.ci_id, !.ci_msg = w.ci_msg]]

\* lines 864-906; ok: dev_remoterequest() succeeds
can_rtrread(r, w, t, ok) ==
  LET wait == rtr_find(0, w.ci_msg)
  IN  IF wait = NoSlot
      THEN rtr_return(r, w, 0 - ENOMEM)
      ELSE LET r1 == [r EXCEPT !.rtr[wait].cr_id = w.ci_id,
                               !.rtr[wait].cr_msg = w.ci_msg,
                               !.npend = @ + 1,
                               !.o.remote = Append(@, w.ci_id)]
           IN  IF ~ok
               THEN rtr_return(r1, w, 0 - EIO)
               ELSE IF r1.rtr[wait].cr_sem.count > 0
                    THEN rtr_return([r1 EXCEPT !.rtr[wait].cr_sem.count = @ - 1],
                                    w, OK)
                    ELSE [r |-> [r1 EXCEPT !.rtr[wait].cr_sem.waitq = Append(@, t)],
                          w |-> [w EXCEPT !.pc = "rtr_wait", !.slot = wait]]

\* the ids a thread asks for: those of the first two received frames
RtrIds == {1, 2}

\* whether dev_remoterequest() may fail
RemoteOutcomes == IF lower.nfaults < MaxFaults THEN BOOLEAN ELSE {TRUE}

RtrCall(t, ci_id, ci_msg, ok) ==
  /\ cd_ocount > 0
  /\ task[t].pc = "idle"
  /\ LET w == [IdleTask EXCEPT !.op = "rtr", !.ci_id = ci_id, !.ci_msg = ci_msg,
                 !.nsub = task[t].nsub, !.nopen = task[t].nopen,
                 !.rmsg = task[t].rmsg]
         a == can_rtrread([Rcv EXCEPT !.o.nrtr = @ + 1], w, t, ok)
     IN  /\ task' = [a.r.tk EXCEPT ![t] = a.w]
         /\ SetRx(a.r)
         /\ obs' = a.r.o
  /\ lower' = IF ok THEN lower ELSE [lower EXCEPT !.nfaults = @ + 1]
  /\ UNCHANGED << config, gate, txside, cd_work >>

\* lines 912-945: ioctl(CANIOC_RTR, &rtr)
Ioctl(t) ==
  /\ obs.nrtr < MaxRtrCalls
  /\ \E ci_id \in RtrIds, ci_msg \in {NULL, t}, ok \in RemoteOutcomes :
       RtrCall(t, ci_id, ci_msg, ok)

\* the thread runs again after sem_wait(&wait->cr_sem), line 900: ret is
\* what sem_wait() returned, OK or, after a signal, ERROR (-1)
RtrResume(t) ==
  /\ task[t].pc = "rtr_wait"
  /\ ~InQueue(cd_rtr[task[t].slot].cr_sem, t)
  /\ task' = [task EXCEPT ![t] =
                rtr_return(Rcv, task[t], IF task[t].intr THEN 0 - 1 ELSE OK).w]
  /\ UNCHANGED << config, gate, txside, rxside, cd_work, lower, obs >>

RtrSignal(t) ==
  /\ task[t].pc = "rtr_wait"
  /\ InQueue(cd_rtr[task[t].slot].cr_sem, t)
  /\ cd_rtr' = [cd_rtr EXCEPT ![task[t].slot].cr_sem.waitq = Without(@, t)]
  /\ task' = [task EXCEPT ![t].intr = TRUE]
  /\ UNCHANGED << config, gate, txside, cd_recv, cd_nrxwaiters, cd_error,
                  cd_npendrtr, cd_work, lower, obs >>

-----------------------------------------------------------------------------
(* can_open, can_close.  The operators pass g along:                       *)
(*   g.oc = cd_ocount, g.cs = cd_closesem, g.x = cd_xmit, g.rc = cd_recv,  *)
(*   g.lo = lower, g.o = obs.                                              *)

Gate == [oc |-> cd_ocount, cs |-> cd_closesem, x |-> cd_xmit, rc |-> cd_recv,
         lo |-> lower, o |-> obs, ret |-> 0]

\* variant: tmp is an int
uint8_wide(x) == x

\* conversion to uint8_t (tmp at line 348)
uint8(x) == x % (UINT8_MAX + 1)

\* variant: the first open records the count before it looks at what
\* dev_setup() returned
open_body_commit(g, ok) ==
  LET tmp == uint8(g.oc + 1)
  IN  IF tmp = 0
      THEN [g EXCEPT !.ret = 0 - EMFILE]
      ELSE IF tmp = 1
           THEN IF ok
                THEN [g EXCEPT !.o.nsetup = @ + 1,
                               !.o.calls = Append(@, "setup"),
                               !.x.tx_head = 0, !.x.tx_queue = 0,
                               !.x.tx_tail = 0,
                               !.rc.rx_head = 0, !.rc.rx_tail = 0,
                               !.lo.rxint = TRUE,
                               !.oc = 1,
                               !.ret = OK]
                ELSE [g EXCEPT !.o.nsetup = @ + 1,
                               !.o.calls = Append(@, "setup_failed"),
                               !.lo.nfaults = @ + 1,
                               !.oc = 1,
                               !.ret = 0 - EIO]
           ELSE [g EXCEPT !.oc = tmp, !.ret = OK]

\* lines 366-410: can_open() with cd_closesem held; ok: dev_setup()
\* succeeds (it is called only when this is the first open)
open_body(g, ok) ==
  LET tmp == uint8(g.oc + 1)
  IN  IF tmp = 0
      THEN [g EXCEPT !.ret = 0 - EMFILE]
      ELSE IF tmp = 1
           THEN IF ok
                THEN [g EXCEPT !.o.nsetup = @ + 1,
                               !.o.calls = Append(@, "setup"),
                               !.x.tx_head = 0, !.x.tx_queue = 0,
                               !.x.tx_tail = 0,
                               !.rc.rx_head = 0, !.rc.rx_tail = 0,
                               !.lo.rxint = TRUE,
                               !.oc = 1,
                               !.ret = OK]
                ELSE [g EXCEPT !.o.nsetup = @ + 1,
                               !.o.calls = Append(@, "setup_failed"),
                               !.lo.nfaults = @ + 1,
                               !.ret = 0 - EIO]
           ELSE [g EXCEPT !.oc = tmp, !.ret = OK]

\* lines 412-415
open_finish(g, w) ==
  [g |-> [g EXCEPT !.cs = sem_post(@)],
   w |-> [IdleTask EXCEPT !.op = "open", !.ret = g.ret, !.nsub = w.nsub,
                          !.rmsg = w.rmsg,
                          !.nopen = IF g.ret = OK THEN w.nopen + 1 ELSE w.nopen]]

\* lines 483-493
close_finish(g, w) ==
  [g |-> [g EXCEPT !.cs = sem_post(@)],
   w |-> [IdleTask EXCEPT !.op = "close", !.ret = OK, !.nsub = w.nsub,
                          !.rmsg = w.rmsg, !.nopen = w.nopen - 1]]

dev_shutdown(g) ==
  [g EXCEPT !.lo.txint = FALSE, !.lo.rxint = FALSE,
            !.o.nshutdown = @ + 1, !.o.calls = Append(@, "shutdown")]

\* obs.closelog lists what the last close under way, or the one before,
\* has done so far
Logged(g, what) == [g EXCEPT !.o.closelog = Append(@, what)]

\* lines 474-489: wait for the TX hardware FIFO to drain
close_hw(g, w) ==
  IF ~dev_txempty(g)
  THEN [g |-> g, w |-> [w EXCEPT !.pc = "close_poll_hw"]]
  ELSE close_finish(Logged(dev_shutdown(Logged(g, "txempty")), "shutdown"), w)

\* variant: the hardware is shut down as soon as the S/W FIFO is empty
close_sw_nodrain(g, w) ==
  IF g.x.tx_head # g.x.tx_tail
  THEN [g |-> g, w |-> [w EXCEPT !.pc = "close_poll_sw"]]
  ELSE close_finish(Logged(dev_shutdown(Logged(Logged(g, "fifo_empty"),
                                               "txempty")),
                           "shutdown"), w)

\* lines 463-470: wait for the transmit FIFO to clear
close_sw(g, w) ==
  IF g.x.tx_head # g.x.tx_tail
  THEN [g |-> g, w |-> [w EXCEPT !.pc = "close_poll_sw"]]
  ELSE close_hw(Logged(g, "fifo_empty"), w)

\* variant: the close that takes the count from 1 to 0 only decrements
close_body_count(g, w) ==
  IF g.oc > 0
  THEN close_finish([g EXCEPT !.oc = @ - 1], w)
  ELSE close_sw([g EXCEPT !.oc = 0, !.lo.rxint = FALSE,
                          !.o.nlast = @ + 1,
                          !.o.closelog = << "rxint_off" >>], w)

\* lines 446-490: can_close() with cd_closesem held
close_body(g, w) ==
  IF g.oc > 1
  THEN close_finish([g EXCEPT !.oc = @ - 1], w)
  ELSE close_sw([g EXCEPT !.oc = 0, !.lo.rxint = FALSE,
                          !.o.nlast = @ + 1,
                          !.o.closelog = << "rxint_off" >>], w)

SetGate(g) ==
  /\ cd_ocount' = g.oc
  /\ cd_closesem' = g.cs
  /\ cd_xmit' = g.x
  /\ cd_recv' = g.rc
  /\ lower' = g.lo
  /\ obs' = g.o

\* whether dev_setup() may fail
SetupOutcomes == IF lower.nfaults < MaxFaults THEN BOOLEAN ELSE {TRUE}

OpenBody(t, g, w) ==
  \E ok \in (IF g.oc = 0 THEN SetupOutcomes ELSE {TRUE}) :
    LET a == open_finish(open_body(g, ok), w)
    IN  /\ SetGate(a.g)
        /\ task' = [task EXCEPT ![t] = a.w]

Open(t) ==
  /\ task[t].pc = "idle"
  /\ task[t].nopen < MaxOpens
  /\ obs.nopencalls < MaxOpenCalls
  /\ LET g == [Gate EXCEPT !.o.nopencalls = @ + 1]
     IN  IF cd_closesem.count > 0
         THEN OpenBody(t, [g EXCEPT !.cs.count = @ - 1], task[t])
         ELSE /\ SetGate([g EXCEPT !.cs.waitq = Append(@, t)])
              /\ task' = [task EXCEPT ![t].pc = "open_wait", ![t].op = "open"]
  /\ UNCHANGED << config, cd_ntxwaiters, cd_nrxwaiters, cd_error, cd_npendrtr,
                  cd_rtr, cd_work >>

OpenResume(t) ==
  /\ task[t].pc = "open_wait"
  /\ ~InQueue(cd_closesem, t)
  /\ IF task[t].intr
     THEN /\ task' = [task EXCEPT ![t] =
                        [IdleTask EXCEPT !.op = "open", !.ret = 0 - EINTR,
                                         !.nsub = task[t].nsub,
                                         !.rmsg = task[t].rmsg,
                                         !.nopen = task[t].nopen]]
          /\ UNCHANGED << gate, cd_xmit, cd_recv, lower, obs >>
     ELSE OpenBody(t, Gate, task[t])
  /\ UNCHANGED << config, cd_ntxwaiters, cd_nrxwaiters, cd_error, cd_npendrtr,
                  cd_rtr, cd_work >>

Close(t) ==
  /\ task[t].pc = "idle"
  /\ task[t].nopen > 0
  /\ IF cd_closesem.count > 0
     THEN LET a == close_body([Gate EXCEPT !.cs.count = @ - 1],
                              [task[t] EXCEPT !.op = "close"])
          IN  /\ SetGate(a.g)
              /\ task' = [task EXCEPT ![t] = a.w]
     ELSE /\ SetGate([Gate EXCEPT !.cs.waitq = Append(@, t)])
          /\ task' = [task EXCEPT ![t].pc = "close_wait", ![t].op = "close"]
  /\ UNCHANGED << config, cd_ntxwaiters, cd_nrxwaiters, cd_error, cd_npendrtr,
                  cd_rtr, cd_work >>

CloseResume(t) ==
  /\ task[t].pc = "close_wait"
  /\ ~InQueue(cd_closesem, t)
  /\ IF task[t].intr
     THEN /\ task' = [task EXCEPT ![t] =
                        [IdleTask EXCEPT !.op = "close", !.ret = 0 - EINTR,
                                         !.nsub = task[t].nsub,
                                         !.rmsg = task[t].rmsg,
                                         !.nopen = task[t].nopen]]
          /\ UNCHANGED << gate, cd_xmit, cd_recv, lower, obs >>
     ELSE LET a == close_body(Gate, task[t])
          IN  /\ SetGate(a.g)
              /\ task' = [task EXCEPT ![t] = a.w]
  /\ UNCHANGED << config, cd_ntxwaiters, cd_nrxwaiters, cd_error, cd_npendrtr,
                  cd_rtr, cd_work >>

\* usleep(HALF_SECOND_USEC) is over: test the loop condition again
ClosePoll(t) ==
  /\ task[t].pc \in {"close_poll_sw", "close_poll_hw"}
  /\ LET w == [task[t] EXCEPT !.pc = "idle"]
         a == IF task[t].pc = "close_poll_sw"
              THEN close_sw(Gate, w)
              ELSE close_hw(Gate, w)
     IN  /\ SetGate(a.g)
         /\ task' = [task EXCEPT ![t] = a.w]
  /\ UNCHANGED << config, cd_ntxwaiters, cd_nrxwaiters, cd_error, cd_npendrtr,
                  cd_rtr, cd_work >>

\* a signal interrupts sem_wait(&dev->cd_closesem)
GateSignal(t) ==
  /\ task[t].pc \in {"open_wait", "close_wait"}
  /\ InQueue(cd_closesem, t)
  /\ cd_closesem' = [cd_closesem EXCEPT !.waitq = Without(@, t)]
  /\ task' = [task EXCEPT ![t].intr = TRUE]
  /\ UNCHANGED << config, cd_ocount, txside, rxside, cd_work, lower, obs >>

-----------------------------------------------------------------------------
(* The driver as can_register() leaves it, and after the first open *)

Configs ==
  { c \in [fifosize : 2..MaxFifoSize, fd : BOOLEAN, errors : BOOLEAN,
           txready : BOOLEAN] : TRUE }

Fifo0 == [i \in 0..(config.fifosize - 1) |-> NoMsg]

\* ocount: opens so far, of which each thread holds held; depth: frames
\* the hardware takes
DevInitHw(ocount, held, cfgs, depth) ==
  /\ config \in cfgs
  /\ cd_ocount = ocount
  /\ cd_closesem = sem_init(1)
  /\ cd_xmit = [tx_sem |-> sem_init(0), tx_head |-> 0, tx_queue |-> 0,
                tx_tail |-> 0, tx_buffer |-> Fifo0]
  /\ cd_ntxwaiters = 0
  /\ cd_recv = [rx_sem |-> sem_init(0), rx_head |-> 0, rx_tail |-> 0,
                rx_buffer |-> Fifo0]
  /\ cd_nrxwaiters = 0
  /\ cd_error = 0
  /\ cd_npendrtr = 0
  /\ cd_rtr = [i \in 0..(CONFIG_CAN_NPENDINGRTR - 1) |->
                 [cr_sem |-> sem_init(0), cr_id |-> 0, cr_msg |-> NULL]]
  /\ cd_work = FALSE
  /\ \E sync \in BOOLEAN :
       /\ config.txready => sync
       /\ lower = [hw |-> << >>, sync |-> sync, failnext |-> FALSE,
                   nfaults |-> 0, txint |-> FALSE, rxint |-> ocount > 0,
                   nrx |-> 0, rxret |-> 0, depth |-> depth]
  /\ task = [t \in Tasks |-> [IdleTask EXCEPT !.nopen = held]]
  /\ obs = [written |-> << >>, sent |-> << >>, ndone |-> 0,
            asserted |-> FALSE, accepted |-> << >>, delivered |-> << >>,
            rxrun |-> << >>, remote |-> << >>, nrtr |-> 0,
            conv |-> [nbytes |-> 0, todlc |-> 0, rbytes |-> 0,
                      dlc |-> 0, tobytes |-> 0, rdlc |-> 0,
                      applied |-> {}],
            nopencalls |-> 0, nlast |-> 0, closelog |-> << >>,
            nwork |-> 0, refused |-> FALSE,
            nsetup |-> IF ocount > 0 THEN 1 ELSE 0, nshutdown |-> 0,
            calls |-> IF ocount > 0 THEN << "setup" >> ELSE << >>]

DevInit(ocount, held, cfgs) == DevInitHw(ocount, held, cfgs, HwDepth)

Registered == DevInit(0, 0, Configs)

\* one thread has opened the device
TxConfigs == { c \in Configs : ~c.fd /\ c.errors }

Opened == DevInit(1, 0, TxConfigs)

NextTx ==
  \/ \E t \in Tasks : Write(t)
  \/ \E t \in Tasks : WriteResume(t)
  \/ \E t \in Tasks : WriteSignal(t)
  \/ TxInterrupt
  \/ TxReadyWork
  \/ SendFault

SpecTx == Opened /\ [][NextTx]_vars

NextTxLong ==
  \/ \E t \in Tasks : WriteLong(t)
  \/ \E t \in Tasks : WriteResume(t)
  \/ \E t \in Tasks : WriteSignal(t)
  \/ TxInterrupt
  \/ TxReadyWork
  \/ SendFault

SpecTxLong == Opened /\ [][NextTxLong]_vars

\* a lower half with a H/W TX FIFO that takes a whole write() buffer:
\* dev_send() calls can_txdone() before it returns (CONFIG_CAN_TXREADY)
SyncConfigs == { c \in Configs : ~c.fd /\ c.errors /\ c.txready }

SpecSync == DevInitHw(1, 0, SyncConfigs, MaxBurst) /\ [][NextTx]_vars

RxConfigs == { c \in Configs : ~c.txready }

NextRx ==
  \/ Receive
  \/ \E t \in Tasks : Read(t)
  \/ \E t \in Tasks : ReadResume(t)
  \/ \E t \in Tasks : ReadSignal(t)

SpecRx == DevInit(1, 0, RxConfigs) /\ [][NextRx]_vars

\* the same lower half, with fairness: the hardware finishes the frames it
\* holds and raises the interrupt, the work queue runs the work that is
\* queued, and a thread that sem_wait() has released is scheduled; no
\* dev_send() fails and no signal arrives
NextSyncFair ==
  \/ \E t \in Tasks : Write(t)
  \/ \E t \in Tasks : WriteResume(t)
  \/ TxInterrupt
  \/ TxReadyWork

SpecSyncFair ==
  /\ DevInitHw(1, 0, SyncConfigs, MaxBurst)
  /\ [][NextSyncFair]_vars
  /\ WF_vars(TxInterrupt)
  /\ WF_vars(TxReadyWork)
  /\ \A t \in Tasks : WF_vars(WriteResume(t))

\* the same with a H/W TX FIFO of HwDepth frames: dev_send() calls
\* can_txdone() while the H/W FIFO has room, dev_txready() is false when it
\* is full, and the interrupt handler calls can_txready() when the
\* hardware has sent a frame
SpecReadyFair ==
  /\ DevInitHw(1, 0, SyncConfigs, HwDepth)
  /\ [][NextSyncFair]_vars
  /\ WF_vars(TxInterrupt)
  /\ WF_vars(TxReadyWork)
  /\ \A t \in Tasks : WF_vars(WriteResume(t))

\* a lower half without a H/W FIFO (the interrupt handler calls
\* can_txdone() once for each frame dev_send() accepted), with the same
\* fairness; no dev_send() fails and no signal arrives
NextTxFair ==
  \/ \E t \in Tasks : Write(t)
  \/ \E t \in Tasks : WriteResume(t)
  \/ TxInterrupt

OpenedAsync == Opened /\ ~lower.sync

SpecTxFair ==
  /\ OpenedAsync
  /\ [][NextTxFair]_vars
  /\ WF_vars(TxInterrupt)
  /\ \A t \in Tasks : WF_vars(WriteResume(t))

\* the same, with a lower half whose dev_send() may refuse a frame
NextTxFaultFair ==
  \/ \E t \in Tasks : Write(t)
  \/ \E t \in Tasks : WriteResume(t)
  \/ TxInterrupt
  \/ SendFault

SpecTxFaultFair ==
  /\ OpenedAsync
  /\ [][NextTxFaultFair]_vars
  /\ WF_vars(TxInterrupt)
  /\ \A t \in Tasks : WF_vars(WriteResume(t))

\* threads that make blocking writes only, the TX interrupt; no
\* dev_send() fails and no signal arrives
WriteBlocking(t) ==
  \E n \in 1..MaxBurst :
    /\ task[t].nsub + n <= MaxTxFrames
    /\ WriteCall(t, n, FALSE, 0)

NextTxBlocking ==
  \/ \E t \in Tasks : WriteBlocking(t)
  \/ \E t \in Tasks : WriteResume(t)
  \/ TxInterrupt

SpecTxBlocking == OpenedAsync /\ [][NextTxBlocking]_vars

\* the two conversions, each applied once to an uint8_t and followed by
\* the other one: obs.conv holds the arguments and what was returned
Bytes2Dlc ==
  /\ "can_bytes2dlc" \notin obs.conv.applied
  /\ \E nbytes \in 0..UINT8_MAX :
       LET dlc == can_bytes2dlc(config.fd, nbytes)
       IN  obs' = [obs EXCEPT !.conv.nbytes = nbytes,
                              !.conv.todlc = dlc,
                              !.conv.rbytes = can_dlc2bytes(config.fd, dlc),
                              !.conv.applied = @ \cup {"can_bytes2dlc"}]
  /\ UNCHANGED << config, gate, txside, rxside, cd_work, lower, task >>

Dlc2Bytes ==
  /\ "can_dlc2bytes" \notin obs.conv.applied
  /\ \E dlc \in 0..UINT8_MAX :
       LET nbytes == can_dlc2bytes(config.fd, dlc)
       IN  obs' = [obs EXCEPT !.conv.dlc = dlc,
                              !.conv.tobytes = nbytes,
                              !.conv.rdlc = can_bytes2dlc(config.fd, nbytes),
                              !.conv.applied = @ \cup {"can_dlc2bytes"}]
  /\ UNCHANGED << config, gate, txside, rxside, cd_work, lower, task >>

DlcConfigs == { c \in Configs : c.fifosize = 2 /\ c.errors /\ ~c.txready }

NextDlc == Bytes2Dlc \/ Dlc2Bytes

SpecDlc == DevInit(1, 0, DlcConfigs) /\ [][NextDlc]_vars

\* remote requests and the receive interrupt
RtrConfigs == { c \in Configs : ~c.txready /\ c.errors }

NextRtr ==
  \/ \E t \in Tasks : Ioctl(t)
  \/ \E t \in Tasks : RtrResume(t)
  \/ \E t \in Tasks : RtrSignal(t)
  \/ Receive

SpecRtr == DevInit(1, 0, RtrConfigs) /\ [][NextRtr]_vars

\* the same, with fairness: a reader that sem_wait() has released is
\* scheduled (frames arrive, and threads call read, as they like)
SpecRxFair ==
  /\ DevInit(1, 0, RxConfigs)
  /\ [][NextRx]_vars
  /\ \A t \in Tasks : WF_vars(ReadResume(t))

RECURSIVE Submitted(_)

\* frames the threads of T have passed to write() so far
Submitted(T) ==
  IF T = {} THEN 0
  ELSE LET t == CHOOSE u \in T : TRUE
       IN  task[t].nsub + Submitted(T \ {t})

\* blocking calls of all three kinds, and signals to the threads that wait
SigConfigs == { c \in Configs : c.fifosize = 2 /\ ~c.fd /\ c.errors /\ ~c.txready }

NextSig ==
  \/ \E t \in Tasks : /\ Submitted(Tasks) < config.fifosize
                      /\ WriteCall(t, 1, FALSE, 0)
  \/ \E t \in Tasks : WriteResume(t)
  \/ \E t \in Tasks : WriteSignal(t)
  \/ TxInterrupt
  \/ \E t \in Tasks : ReadCall(t, CAN_MSGLEN(CAN_ERROR_DLC), FALSE)
  \/ \E t \in Tasks : ReadResume(t)
  \/ \E t \in Tasks : ReadSignal(t)
  \/ lower.nrx < MaxSigInputs /\ Receive
  \/ \E t \in Tasks : obs.nrtr < MaxSigInputs /\ RtrCall(t, 1, NULL, TRUE)
  \/ \E t \in Tasks : RtrResume(t)
  \/ \E t \in Tasks : RtrSignal(t)

SpecSig == DevInit(1, 0, SigConfigs) /\ [][NextSig]_vars

\* open and close, with non-blocking writers: the device is closed, or
\* other descriptors hold it open so often that two more opens fill
\* cd_ocount
OcConfigs == { c \in Configs : c.fifosize = 2 /\ ~c.fd /\ c.errors /\ ~c.txready }

InitOC ==
  \/ DevInit(0, 0, OcConfigs)
  \/ DevInit(UINT8_MAX - MaxOpens, 0, OcConfigs)

NextOC ==
  \/ \E t \in Tasks : Open(t)
  \/ \E t \in Tasks : OpenResume(t)
  \/ \E t \in Tasks : Close(t)
  \/ \E t \in Tasks : CloseResume(t)
  \/ \E t \in Tasks : ClosePoll(t)
  \/ \E t \in Tasks : GateSignal(t)
  \/ \E t \in Tasks : /\ task[t].nopen > 0
                      /\ Submitted(Tasks) < MaxTxFrames
                      /\ WriteCall(t, 1, TRUE, 0)
  \/ TxInterrupt

SpecOC == InitOC /\ [][NextOC]_vars

\* the same with a lower half without H/W FIFO and with fairness: the
\* hardware finishes the frame it holds and the interrupt handler calls
\* can_txdone(), a thread that sleeps in a poll loop of can_close() or that
\* was handed cd_closesem runs on; dev_send() may refuse a frame
InitOCAsync == InitOC /\ ~lower.sync

NextOCFault ==
  \/ NextOC
  \/ SendFault

SpecOCFaultFair ==
  /\ InitOCAsync
  /\ [][NextOCFault]_vars
  /\ WF_vars(TxInterrupt)
  /\ \A t \in Tasks : /\ WF_vars(OpenResume(t))
                       /\ WF_vars(CloseResume(t))
                       /\ WF_vars(ClosePoll(t))

\* the same, with a lower half that accepts every frame
SpecOCFair ==
  /\ InitOCAsync
  /\ [][NextOC]_vars
  /\ WF_vars(TxInterrupt)
  /\ \A t \in Tasks : /\ WF_vars(OpenResume(t))
                       /\ WF_vars(CloseResume(t))
                       /\ WF_vars(ClosePoll(t))

-----------------------------------------------------------------------------
(* Properties *)

\* frames between head and tail, counted on the ring
Dist(head, tail) == ((tail - head) + config.fifosize) % config.fifosize

RECURSIVE IsSubseq(_, _)

\* a is b with some elements left out
IsSubseq(a, b) ==
  IF a = << >> THEN TRUE
  ELSE IF b = << >> THEN FALSE
  ELSE IF Head(a) = Head(b) THEN IsSubseq(Tail(a), Tail(b))
  ELSE IsSubseq(a, Tail(b))

NoDup(a) == \A i, j \in 1..Len(a) : a[i] = a[j] => i = j

IsPrefix(a, b) == Len(a) <= Len(b) /\ \A i \in 1..Len(a) : a[i] = b[i]

RECURSIVE SumLen(_)

SumLen(a) ==
  IF a = << >> THEN 0
  ELSE CAN_MSGLEN(can_dlc2bytes(config.fd, Head(a).ch_dlc)) + SumLen(Tail(a))

\* the frames the RX FIFO holds, oldest first
RxFifo ==
  [i \in 1..Dist(cd_recv.rx_head, cd_recv.rx_tail) |->
     cd_recv.rx_buffer[(cd_recv.rx_head + i - 1) % config.fifosize]]

\* a frame that can_read() made up from cd_error
Synthesized(m) == m.ch_id = CAN_ERROR_INTERNAL /\ m.ch_error = 1

FromFifo(m) == ~Synthesized(m)

OverflowLatched == (cd_error \div CAN_ERROR5_RXOVERFLOW) % 2 = 1

Returned(t, op) == task[t].pc = "idle" /\ task[t].op = op

\* C1: the frames passed to dev_send are frames that write appended, in
\* the order in which write appended them, and none of them is passed twice
\* (every appended frame is distinct, so obs.sent is obs.written with
\* frames left out and has no duplicate).
C1_TxOrder == IsSubseq(obs.sent, obs.written) /\ NoDup(obs.sent)

\* C2: the frames returned by the read calls so far, followed by the
\* frames still in the RX FIFO, are exactly the frames for which receive
\* returned OK, in that order.
C2_ReadsAreAccepted == obs.delivered \o RxFifo = obs.accepted

\* C2 (amended): the frames returned by the read calls so far other than
\* the error frames that read makes up from cd_error, followed by the
\* frames still in the RX FIFO, are exactly the frames for which receive
\* returned OK, in that order.
C2_FifoReadsAreAccepted ==
  SelectSeq(obs.delivered, FromFifo) \o RxFifo = obs.accepted

\* two readers have been served, an error frame came between FIFO frames
C2_Witness ==
  /\ \E i, j, k \in 1..Len(obs.delivered) :
       /\ i < j /\ j < k
       /\ FromFifo(obs.delivered[i])
       /\ Synthesized(obs.delivered[j])
       /\ FromFifo(obs.delivered[k])
  /\ \A t \in Tasks : Returned(t, "read") /\ task[t].got # << >>

\* C3: each FIFO holds at most C-1 unconsumed frames, and the distance
\* from head to tail on the ring is the number of unconsumed frames:
\* appended and not yet read (RX), appended and not yet completed by
\* can_txdone (TX).  So head = tail only when nothing is unconsumed.
C3_RingSafety ==
  /\ Len(obs.accepted) - Len(SelectSeq(obs.delivered, FromFifo))
       = Dist(cd_recv.rx_head, cd_recv.rx_tail)
  /\ Len(obs.written) - obs.ndone = Dist(cd_xmit.tx_head, cd_xmit.tx_tail)
  /\ Len(obs.written) - obs.ndone <= config.fifosize - 1

\* C4: a write with O_NONBLOCK that finds the TX FIFO full before it has
\* appended a frame returns -EAGAIN in the same step (it does not wait) and
\* leaves cd_xmit (tx_head, tx_queue, tx_tail, tx_sem, the buffer) and
\* cd_ntxwaiters as they were.
C4_NonblockFull ==
  [][\A t \in Tasks, n \in 1..MaxBurst, trailing \in 0..(CAN_MSGLEN(0) - 1) :
       (/\ Inc(cd_xmit.tx_tail) = cd_xmit.tx_head
        /\ task'[t].op = "write"
        /\ WriteCall(t, n, TRUE, trailing))
       => /\ task'[t].pc = "idle"
          /\ task'[t].ret = 0 - EAGAIN
          /\ task'[t].app = << >>
          /\ cd_xmit' = cd_xmit
          /\ cd_ntxwaiters' = cd_ntxwaiters]_vars

C4_Witness ==
  \E t \in Tasks :
    /\ Returned(t, "write")
    /\ task[t].ret = 0 - EAGAIN
    /\ Inc(cd_xmit.tx_tail) = cd_xmit.tx_head
    /\ cd_xmit.tx_queue # cd_xmit.tx_tail

\* C5: every append advances tx_tail by one slot, so that tx_tail is the
\* number of frames appended so far modulo C, and a write call that has
\* appended k >= 1 frames returns the sum of the lengths of those k frames.
C5_WriteAdvance ==
  /\ cd_xmit.tx_tail = Len(obs.written) % config.fifosize
  /\ \A t \in Tasks :
       (Returned(t, "write") /\ task[t].app # << >>)
       => task[t].ret = SumLen(task[t].app)

\* C6: a receive that finds the RX FIFO full returns -ENOMEM, leaves
\* cd_recv (rx_head, rx_tail, the buffered frames, rx_sem) as it was,
\* accepts nothing, and with CONFIG_CAN_ERRORS sets the overflow bit of
\* cd_error.
C6_ReceiveFull ==
  [][(/\ lower'.nrx = lower.nrx + 1
      /\ Inc(cd_recv.rx_tail) = cd_recv.rx_head)
     => /\ lower'.rxret = 0 - ENOMEM
        /\ cd_recv' = cd_recv
        /\ obs'.accepted = obs.accepted
        /\ (config.errors => OverflowLatched')
        /\ (~config.errors => cd_error' = cd_error)]_vars

\* a frame was dropped while a woken reader had not run yet
C6_Witness ==
  /\ lower.rxret = 0 - ENOMEM
  /\ Inc(cd_recv.rx_tail) = cd_recv.rx_head
  /\ OverflowLatched
  /\ cd_nrxwaiters > 0

\* C7: a read with a buffer of at least CAN_MSGLEN(CAN_ERROR_DLC) bytes
\* that finds cd_error non-zero returns in the same step exactly one frame,
\* with id CAN_ERROR_INTERNAL, error = 1, data[5] = cd_error and the other
\* data bytes 0, sets cd_error to 0 and leaves rx_head and rx_tail alone;
\* and a read that finds cd_error zero returns frames of the RX FIFO only.
C7_ReadError ==
  [][\A t \in Tasks :
       (/\ task[t].pc = "idle" /\ task'[t].op = "read" /\ lower' = lower
        /\ \A u \in Tasks \ {t} : task'[u] = task[u])
       => \A buflen \in ReadLens, nonblock \in BOOLEAN :
            ReadCall(t, buflen, nonblock)
            => /\ (/\ config.errors
                   /\ cd_error # 0
                   /\ buflen >= CAN_MSGLEN(CAN_ERROR_DLC))
                  => /\ task'[t].pc = "idle"
                     /\ task'[t].ret = CAN_MSGLEN(CAN_ERROR_DLC)
                     /\ task'[t].got =
                          << [ch_id |-> CAN_ERROR_INTERNAL,
                              ch_dlc |-> CAN_ERROR_DLC,
                              ch_error |-> 1,
                              cm_data |-> [j \in 1..CAN_ERROR_DLC |->
                                             IF j = 5 + 1 THEN cd_error
                                             ELSE 0]] >>
                     /\ cd_error' = 0
                     /\ cd_recv' = cd_recv
               /\ cd_error = 0 => IsPrefix(task'[t].got, RxFifo)]_vars

\* the error frame was returned while frames are waiting in the FIFO
C7_Witness ==
  \E t \in Tasks :
    /\ Returned(t, "read")
    /\ Len(task[t].got) = 1
    /\ Synthesized(task[t].got[1])
    /\ task[t].got[1].cm_data[6] # 0
    /\ cd_error = 0
    /\ cd_recv.rx_head # cd_recv.rx_tail

\* C8: with CONFIG_CAN_FIFOSIZE = 2 and CONFIG_CAN_ERRORS, three receive
\* calls in a row that start with the RX FIFO empty return OK, OK, -ENOMEM
\* and leave the overflow bit set.
C8_ThreeReceives ==
  (config.fifosize = 2 /\ config.errors /\ Len(obs.rxrun) = 3)
  => (obs.rxrun = << OK, OK, 0 - ENOMEM >> /\ OverflowLatched)

\* C8 (amended): they return OK, -ENOMEM, -ENOMEM, and the overflow bit is
\* set from the second call on.
C8_ThreeReceivesOneSlot ==
  (config.fifosize = 2 /\ config.errors)
  => /\ Len(obs.rxrun) >= 1 => obs.rxrun[1] = OK
     /\ Len(obs.rxrun) >= 2 => (obs.rxrun[2] = 0 - ENOMEM /\ OverflowLatched)
     /\ Len(obs.rxrun) >= 3 => (obs.rxrun[3] = 0 - ENOMEM /\ OverflowLatched)

C8_Witness ==
  config.fifosize = 2 /\ config.errors /\ Len(obs.rxrun) = 3

\* a last close is waiting for the TX FIFO or the hardware to drain
Closing == \E t \in Tasks : task[t].pc \in {"close_poll_sw", "close_poll_hw"}

IsSetupCall(c) == c \in {"setup", "setup_failed"}

Effective(c) == c # "setup_failed"

\* setup, shutdown, setup, ...
Alternate(calls) ==
  \A i \in 1..Len(calls) : (calls[i] # "shutdown") <=> (i % 2 = 1)

\* C9: the calls of dev_setup and dev_shutdown alternate strictly,
\* starting with dev_setup (so each dev_setup call goes with one 0-to-1
\* transition of cd_ocount), every last close has called dev_shutdown or
\* is still draining, and the count is 0 while a last close drains.
C9_SetupShutdownAlternate ==
  /\ Alternate(obs.calls)
  /\ obs.nlast = obs.nshutdown + (IF Closing THEN 1 ELSE 0)
  /\ Closing => cd_ocount = 0

\* C9 (amended): the dev_setup calls that succeed and the dev_shutdown
\* calls alternate strictly, starting with dev_setup; cd_ocount leaves 0
\* only in a step that calls dev_setup with success and reaches 0 only in a
\* step of a last close, which calls dev_shutdown in that step or later; a
\* dev_setup call that fails leaves the count 0; and from the step in which
\* a last close sets the count to 0 until it has called dev_shutdown no
\* open gets past cd_closesem (an open that a signal interrupts while it
\* waits there returns -EINTR and has touched nothing).
C9_GateSerializes ==
  [][/\ Alternate(SelectSeq(obs'.calls, Effective))
     /\ obs'.nlast = obs'.nshutdown + (IF Closing' THEN 1 ELSE 0)
     /\ (cd_ocount = 0 /\ cd_ocount' # 0)
        => (cd_ocount' = 1 /\ obs'.calls = Append(obs.calls, "setup"))
     /\ (cd_ocount # 0 /\ cd_ocount' = 0)
        => /\ cd_ocount = 1
           /\ obs'.nlast = obs.nlast + 1
           /\ Closing' \/ obs'.calls = Append(obs.calls, "shutdown")
     /\ obs'.calls # obs.calls
        => \/ /\ obs'.calls = Append(obs.calls, "setup")
              /\ cd_ocount = 0 /\ cd_ocount' = 1
           \/ /\ obs'.calls = Append(obs.calls, "setup_failed")
              /\ cd_ocount = 0 /\ cd_ocount' = 0
           \/ /\ obs'.calls = Append(obs.calls, "shutdown")
              /\ cd_ocount' = 0
              /\ Closing \/ cd_ocount = 1
     /\ Closing
        => /\ cd_ocount = 0 /\ cd_ocount' = 0
           /\ cd_closesem.count = 0
           /\ \A t \in Tasks :
                /\ task'[t].nopen <= task[t].nopen
                /\ (task[t].pc = "open_wait" /\ task'[t].pc = "idle")
                   => task'[t].ret = 0 - EINTR]_vars

\* in the second session a last close drains while an open waits
C9_Witness ==
  /\ Closing
  /\ obs.nshutdown >= 1
  /\ \E i \in 1..Len(obs.calls) : obs.calls[i] = "setup_failed"
  /\ \E t \in Tasks : task[t].pc = "open_wait"

\* C10: an open that gets past cd_closesem returns -EMFILE exactly when
\* cd_ocount is 255; then cd_ocount stays 255, dev_setup is not called,
\* cd_xmit and cd_recv (all FIFO indices) are as before, the caller holds
\* no new descriptor and cd_closesem is free again.
C10_TooManyOpens ==
  [][\A t \in Tasks :
       (/\ Open(t) \/ OpenResume(t)
        /\ task'[t].pc = "idle"
        /\ task'[t].ret # 0 - EINTR)
       => /\ (task'[t].ret = 0 - EMFILE) <=> (cd_ocount = UINT8_MAX)
          /\ cd_ocount = UINT8_MAX
             => /\ cd_ocount' = UINT8_MAX
                /\ obs'.calls = obs.calls
                /\ obs'.nsetup = obs.nsetup
                /\ cd_xmit' = cd_xmit
                /\ cd_recv' = cd_recv
                /\ lower' = lower
                /\ task'[t].nopen = task[t].nopen
                /\ cd_closesem'.count = 1]_vars

\* an open failed with -EMFILE, and a close after it went through
C10_Witness ==
  \E t, u \in Tasks :
    /\ Returned(t, "open")
    /\ task[t].ret = 0 - EMFILE
    /\ Returned(u, "close")
    /\ task[u].ret = OK
    /\ cd_ocount = UINT8_MAX - 1
    /\ cd_closesem.count = 1


\* an open or a resumed open of thread t that got past cd_closesem
PastGate(t) ==
  /\ Open(t) \/ OpenResume(t)
  /\ task'[t].pc = "idle"
  /\ task'[t].ret # 0 - EINTR

\* cd_closesem was held and has been posted: the count is 1 again, or the
\* semaphore went to the thread at the head of the wait list
Released(before, after) ==
  \/ after.count = 1 /\ after.waitq = << >>
  \/ after.count = 0 /\ before.waitq # << >> /\ after.waitq = Tail(before.waitq)

\* C11: a first open in which dev_setup fails returns the error of
\* dev_setup, leaves cd_ocount 0, leaves the indices of both FIFOs as they
\* were (they are not reset), leaves the RX interrupt disabled and posts
\* cd_closesem; and every open that gets past cd_closesem while cd_ocount is
\* 0 calls dev_setup, so the open after a failed one calls it again.
C11_SetupFails ==
  [][\A t \in Tasks :
       PastGate(t)
       => /\ obs'.calls = Append(obs.calls, "setup_failed")
             => /\ cd_ocount = 0
                /\ task'[t].ret = 0 - EIO
                /\ task'[t].nopen = task[t].nopen
                /\ cd_ocount' = 0
                /\ cd_xmit' = cd_xmit
                /\ cd_recv' = cd_recv
                /\ ~lower'.rxint
                /\ Released(cd_closesem, cd_closesem')
          /\ cd_ocount = 0
             => /\ obs'.nsetup = obs.nsetup + 1
                /\ IsSetupCall(obs'.calls[Len(obs'.calls)])
                /\ Len(obs'.calls) = Len(obs.calls) + 1]_vars

\* dev_setup has failed in the open of a second session, which found the
\* TX indices where the first session left them
C11_Witness ==
  \E t \in Tasks :
    /\ Returned(t, "open")
    /\ task[t].ret = 0 - EIO
    /\ obs.calls # << >>
    /\ obs.calls[Len(obs.calls)] = "setup_failed"
    /\ obs.nshutdown >= 1
    /\ cd_ocount = 0
    /\ cd_xmit.tx_head # 0
    /\ cd_closesem.count = 1

\* some slot of the pending RTR list has a null target pointer
FreeSlot == \E i \in DOMAIN cd_rtr : cd_rtr[i].cr_msg = NULL

\* the n-th received frame as it is stored
RxFrame(id) ==
  [ch_id |-> id, ch_dlc |-> RxDlc(id), ch_error |-> 0,
   cm_data |-> Payload(id, can_dlc2bytes(config.fd, RxDlc(id)))]

\* C12: an ioctl(CANIOC_RTR) with a non-null message pointer, issued while
\* a slot is free and with dev_remoterequest succeeding, takes a free slot
\* for its id and pointer, calls dev_remoterequest with the id and blocks;
\* the receive of a frame with that id stores the frame in the caller's
\* message, frees the slot and wakes the caller; and the caller then
\* returns OK.
C12_RtrRoundTrip ==
  [][\A t \in Tasks :
       /\ \A id \in RtrIds :
            (FreeSlot /\ RtrCall(t, id, t, TRUE))
            => /\ task'[t].pc = "rtr_wait"
               /\ \E i \in DOMAIN cd_rtr :
                    /\ cd_rtr[i].cr_msg = NULL
                    /\ cd_rtr'[i].cr_msg = t
                    /\ cd_rtr'[i].cr_id = id
               /\ obs'.remote = Append(obs.remote, id)
       /\ (/\ task[t].pc = "rtr_wait"
           /\ task[t].ci_msg = t
           /\ lower'.nrx = lower.nrx + 1
           /\ task[t].ci_id = lower'.nrx)
          => /\ task'[t].rmsg = RxFrame(task[t].ci_id)
             /\ cd_rtr'[task[t].slot].cr_msg = NULL
             /\ ~InQueue(cd_rtr'[task[t].slot].cr_sem, t)
       /\ (task[t].ci_msg = t /\ ~task[t].intr /\ RtrResume(t))
          => task'[t].ret = OK]_vars

\* C13: an ioctl(CANIOC_RTR) returns -ENOMEM exactly when no slot has a
\* null target pointer at the call, and then leaves cd_rtr, cd_npendrtr
\* and the requests sent to dev_remoterequest as they were; when a slot is
\* free the call writes its id and pointer into exactly one slot whose
\* target pointer was null, adds one to cd_npendrtr and leaves every other
\* slot as it was.
C13_RtrNoSlot ==
  [][\A t \in Tasks, id \in RtrIds, ci_msg \in {NULL} \cup Tasks, ok \in BOOLEAN :
       (ci_msg \in {NULL, t} /\ RtrCall(t, id, ci_msg, ok))
       => /\ (task'[t].pc = "idle" /\ task'[t].ret = 0 - ENOMEM) <=> ~FreeSlot
          /\ ~FreeSlot
             => /\ cd_rtr' = cd_rtr
                /\ cd_npendrtr' = cd_npendrtr
                /\ obs'.remote = obs.remote
          /\ FreeSlot
             => /\ cd_npendrtr' = cd_npendrtr + 1
                /\ \E i \in DOMAIN cd_rtr :
                     /\ cd_rtr[i].cr_msg = NULL
                     /\ cd_rtr'[i].cr_msg = ci_msg
                     /\ cd_rtr'[i].cr_id = id
                     /\ \A j \in DOMAIN cd_rtr \ {i} : cd_rtr'[j] = cd_rtr[j]]_vars

\* thread t runs again after a signal has interrupted its wait
Interrupted(t, pc) == task[t].pc = pc /\ task[t].intr /\ task'[t] # task[t]

TxQuiescent(x) == x.tx_head = x.tx_queue /\ x.tx_queue = x.tx_tail

\* C15: with a lower half whose dev_send calls can_txdone before it
\* returns and succeeds, the hardware idle and ready for all n frames, a
\* write of n frames, 1 <= n <= C-1, into an empty TX FIFO returns in the
\* same step the n frames' bytes, leaves tx_head = tx_queue = tx_tail, has
\* passed the n frames to dev_send once each and in order, and fails no
\* assertion of can_xmit or can_txdone.
C15_SyncWrite ==
  [][\A t \in Tasks, n \in 1..MaxBurst, nonblock \in BOOLEAN :
       (/\ n <= config.fifosize - 1
        /\ lower.sync /\ lower.hw = << >> /\ n <= lower.depth
        /\ ~lower.failnext
        /\ TxQuiescent(cd_xmit)
        /\ ~obs.asserted
        /\ task'[t].op = "write"
        /\ WriteCall(t, n, nonblock, 0))
       => /\ task'[t].pc = "idle"
          /\ task'[t].ret = BufLen(config.fd, UserBuf(t, task[t].nsub, n), n)
          /\ TxQuiescent(cd_xmit')
          /\ cd_xmit'.tx_tail = (cd_xmit.tx_tail + n) % config.fifosize
          /\ obs'.sent = obs.sent \o UserBuf(t, task[t].nsub, n)
          /\ obs'.ndone = obs.ndone + n
          /\ ~obs'.asserted]_vars

\* a write of two frames has returned with the FIFO empty again: both
\* frames went to the hardware inside nested can_xmit calls
C15_Witness ==
  \E t \in Tasks :
    /\ lower.sync
    /\ Returned(t, "write")
    /\ Len(task[t].app) = 2
    /\ task[t].ret = SumLen(task[t].app)
    /\ TxQuiescent(cd_xmit)
    /\ cd_xmit.tx_tail = 2
    /\ obs.sent = task[t].app
    /\ lower.hw = task[t].app
    /\ ~obs.asserted

\* C16: with CONFIG_CAN_FD, a byte count n in 0..64 converted to a DLC and
\* back gives at least n bytes, and a DLC in 0..15 converted to a byte
\* count and back gives the same DLC.
C16_DlcRoundTrip ==
  config.fd
  => /\ obs.conv.nbytes <= 64 => obs.conv.rbytes >= obs.conv.nbytes
     /\ obs.conv.dlc <= 15 => obs.conv.rdlc = obs.conv.dlc

\* 33 bytes need the DLC for 48; DLC 13 stands for 32 bytes
C16_Witness ==
  /\ config.fd
  /\ obs.conv.applied = {"can_bytes2dlc", "can_dlc2bytes"}
  /\ obs.conv.nbytes = 33 /\ obs.conv.todlc = 14 /\ obs.conv.rbytes = 48
  /\ obs.conv.dlc = 13 /\ obs.conv.tobytes = 32 /\ obs.conv.rdlc = 13

\* head, queue, tail lie in this order on the ring
Ordered(x) ==
  Dist(x.tx_head, x.tx_queue) + Dist(x.tx_queue, x.tx_tail)
    = Dist(x.tx_head, x.tx_tail)

\* C17: tx_head, tx_queue, tx_tail are in this order on the ring whenever
\* no critical section is running, and no DEBUGASSERT of can_xmit or
\* can_txdone has failed (obs.asserted records a failure at the point of
\* the assertion, also inside the nested calls that dev_send starts).
C17_IndexOrder == Ordered(cd_xmit) /\ ~obs.asserted

\* the slots of the pending RTR list whose target pointer is msg
SlotsOf(msg) == {i \in DOMAIN cd_rtr : cd_rtr[i].cr_msg = msg}

\* C18: cd_npendrtr is the number of slots with a non-null target pointer;
\* no caller's message is the target of more than one slot; and the slot
\* of a caller that has been posted and not yet run is free.
C18_PendingCount ==
  /\ cd_npendrtr = Cardinality(DOMAIN cd_rtr \ SlotsOf(NULL))
  /\ \A t \in Tasks :
       /\ Cardinality(SlotsOf(t)) <= 1
       /\ (/\ task[t].pc = "rtr_wait"
           /\ ~task[t].intr
           /\ ~InQueue(cd_rtr[task[t].slot].cr_sem, t))
          => cd_rtr[task[t].slot].cr_msg = NULL

\* C19: a write that waits on tx_sem for space in the TX FIFO returns in
\* the end.
C19_WriterProgress ==
  \A t \in Tasks : (task[t].pc = "tx_wait") ~> (task[t].pc = "idle")

RxEmpty == cd_recv.rx_head = cd_recv.rx_tail

\* C20: no reader stays blocked in its wait on rx_sem for ever while the
\* RX FIFO holds a frame: a reader that waits while the FIFO is not empty
\* returns, or the FIFO is emptied by another reader.
C20_ReaderProgress ==
  \A t \in Tasks :
    (task[t].pc = "rx_wait" /\ ~RxEmpty) ~> (task[t].pc = "idle" \/ RxEmpty)

\* C22: a write that returns after it has appended a frame, with its
\* inactive variable true at the return, has called can_xmit after its last
\* append, whichever way it returns (task[t].kick is reset by every append
\* and set by every can_xmit call of the write).
C22_KickAfterAppend ==
  \A t \in Tasks :
    (Returned(t, "write") /\ task[t].app # << >> /\ task[t].inactive)
    => task[t].kick

\* the ids of the frames the threads pass to write
FrameIds == {10 * t + k : t \in Tasks, k \in 1..MaxTxFrames}

Has(frames, id) == \E i \in 1..Len(frames) : frames[i].ch_id = id

\* C21: every frame that write has appended to the TX FIFO is passed to
\* dev_send in the end, and the TX FIFO is in the end, when the writes are
\* over, back at tx_head = tx_queue = tx_tail for good.
C21_TxDrains ==
  /\ \A id \in FrameIds : Has(obs.written, id) ~> Has(obs.sent, id)
  /\ <>[]TxQuiescent(cd_xmit)

\* C23: can_txdone has advanced tx_head at most as often as can_xmit has
\* called dev_send, and in the end exactly as often: every dev_send call,
\* whatever it returned, is followed by one can_txdone that advances
\* tx_head.
C23_SendDonePairing ==
  /\ [](obs.ndone <= Len(obs.sent))
  /\ <>[](obs.ndone = Len(obs.sent))

\* what a last close does, in the order of can_close
CloseOrder == << "rxint_off", "fifo_empty", "txempty", "shutdown" >>

\* the close of thread t gets past cd_closesem in this step
CloseEnters(t) ==
  \/ Close(t) /\ cd_closesem.count > 0
  \/ CloseResume(t) /\ ~task[t].intr

\* C25: a step that calls dev_shutdown belongs to a last close that has
\* disabled the RX interrupt, then found tx_head = tx_tail, then found
\* dev_txempty true, in this order, and it posts cd_closesem, which the
\* close has held since it tested cd_ocount (while a last close polls,
\* cd_closesem is taken); a close that finds cd_ocount > 1 takes one off
\* the count and posts cd_closesem, and changes nothing else: it does not
\* touch the RX interrupt, calls neither dev_shutdown nor polls.
C25_LastCloseOrder ==
  [][/\ obs'.nshutdown # obs.nshutdown
        => /\ obs'.nshutdown = obs.nshutdown + 1
           /\ obs'.closelog = CloseOrder
           /\ Closing \/ (cd_ocount = 1 /\ \E t \in Tasks : CloseEnters(t))
           /\ cd_xmit.tx_head = cd_xmit.tx_tail
           /\ cd_xmit' = cd_xmit
           /\ lower.hw = << >>
           /\ cd_ocount' = 0
           /\ Released(cd_closesem, cd_closesem')
     /\ Closing
        => /\ cd_closesem.count = 0
           /\ ~lower.rxint
           /\ obs.closelog # << >>
           /\ obs.closelog # CloseOrder
           /\ IsPrefix(obs.closelog, CloseOrder)
     /\ \A t \in Tasks :
          CloseEnters(t)
          => IF cd_ocount > 1
             THEN /\ cd_ocount' = cd_ocount - 1
                  /\ task'[t].pc = "idle"
                  /\ lower' = lower
                  /\ obs' = obs
                  /\ cd_xmit' = cd_xmit
                  /\ Released([cd_closesem EXCEPT !.count = 0], cd_closesem')
             ELSE /\ cd_ocount' = 0
                  /\ ~lower'.rxint
                  /\ obs'.nlast = obs.nlast + 1
                  /\ Head(obs'.closelog) = "rxint_off"
                  /\ Closing' \/ obs'.nshutdown = obs.nshutdown + 1]_vars

\* a last close has shut the device down after frames were written and
\* completed, and the other thread's close before it only took one off the
\* count
C25_Witness ==
  \E t, u \in Tasks :
    /\ t # u
    /\ Returned(t, "close") /\ task[t].ret = OK
    /\ Returned(u, "close") /\ task[u].ret = OK
    /\ obs.closelog = CloseOrder
    /\ obs.nshutdown = 1
    /\ obs.nlast = 1
    /\ cd_ocount = 0
    /\ obs.written # << >>
    /\ obs.ndone = Len(obs.written)
    /\ ~lower.rxint
    /\ cd_closesem.count = 1

\* C24: a last close that polls for the TX FIFO or the hardware to drain
\* calls dev_shutdown, posts cd_closesem and returns in the end.
C24_CloseReturns ==
  \A t \in Tasks :
    (task[t].pc \in {"close_poll_sw", "close_poll_hw"})
      ~> (Returned(t, "close") /\ obs.nshutdown = obs.nlast)

\* C27: with CONFIG_CAN_TXREADY at most one can_txready_work item is
\* queued at any time (cd_work says whether one is); a can_txready call
\* that finds the TX FIFO not empty queues the work and returns OK when the
\* work handle is free, and returns -EBUSY and queues nothing when it is
\* not; a call that finds the TX FIFO empty returns -ENOENT and queues
\* nothing; and no call changes cd_xmit, cd_ntxwaiters or a thread.
C27_OneWorkItem ==
  [][/\ obs'.nwork <= 1
     /\ cd_work' <=> obs'.nwork = 1
     /\ (config.txready /\ TxInterrupt)
        => LET r == can_txready(Dev, cd_work)
           IN  /\ cd_xmit' = cd_xmit
               /\ cd_ntxwaiters' = cd_ntxwaiters
               /\ task' = task
               /\ IF cd_xmit.tx_head # cd_xmit.tx_tail
                  THEN IF ~cd_work
                       THEN /\ r.ret = OK
                            /\ cd_work'
                            /\ obs'.nwork = obs.nwork + 1
                       ELSE /\ r.ret = 0 - EBUSY
                            /\ cd_work'
                            /\ obs'.nwork = obs.nwork
                            /\ obs'.refused
                  ELSE /\ r.ret = 0 - ENOENT
                       /\ cd_work' = cd_work
                       /\ obs'.nwork = obs.nwork
                       /\ obs'.refused = obs.refused]_vars

\* the work is queued, and a second completion interrupt has found it
\* queued, with frames still in the TX FIFO
C27_Witness ==
  /\ config.txready
  /\ cd_work
  /\ obs.nwork = 1
  /\ obs.refused
  /\ cd_xmit.tx_head # cd_xmit.tx_tail
  /\ lower.hw = << >>

Unsent ==
  {(cd_xmit.tx_queue + k) % config.fifosize :
     k \in 0..(Dist(cd_xmit.tx_queue, cd_xmit.tx_tail) - 1)}

\* C29: with threads that make blocking writes concurrently, every step
\* moves tx_tail forward by the number of frames it appends (an append
\* never leaves tx_tail where it was or moves it back), and every frame
\* that was appended and not yet passed to dev_send is in a slot of its own
\* between tx_queue and tx_tail.
C29_OwnSlot ==
  [][/\ Dist(cd_xmit.tx_tail, cd_xmit'.tx_tail)
          = Len(obs'.written) - Len(obs.written)
     /\ \A i \in 1..Len(obs'.written) :
          ~Has(obs'.sent, obs'.written[i].ch_id)
          => \E k \in Unsent' : cd_xmit'.tx_buffer[k] = obs'.written[i]]_vars

-----------------------------------------------------------------------------
(* can_receive with requests waiting in the pending RTR list.  Each slot   *)
(* is free, as can_register() leaves it, or holds what lines 883-885 write *)
(* for the request of a thread that then waits at line 900: the id, the    *)
(* pointer to the thread's message, and the thread on the slot's           *)
(* semaphore.                                                              *)

Slots == 0..(CONFIG_CAN_NPENDINGRTR - 1)

\* who waits in which slot: NULL for a free slot, and no thread twice
Owners ==
  { own \in [Slots -> {NULL} \cup Tasks] :
      /\ \E i \in Slots : own[i] # NULL
      /\ \A i, j \in Slots : (i # j /\ own[i] # NULL) => own[i] # own[j] }

RECURSIVE Requested(_, _, _)

\* the ids passed to dev_remoterequest(), line 895, in slot order
Requested(own, ids, i) ==
  IF i >= CONFIG_CAN_NPENDINGRTR THEN << >>
  ELSE IF own[i] = NULL THEN Requested(own, ids, i + 1)
  ELSE << ids[i] >> \o Requested(own, ids, i + 1)

RtrPending(own, ids) ==
  /\ cd_rtr = [i \in Slots |->
                 IF own[i] = NULL
                 THEN [cr_sem |-> sem_init(0), cr_id |-> 0, cr_msg |-> NULL]
                 ELSE [cr_sem |-> [count |-> 0, waitq |-> << own[i] >>],
                       cr_id |-> ids[i], cr_msg |-> own[i]]]
  /\ cd_npendrtr = Cardinality({ i \in Slots : own[i] # NULL })
  /\ task = [t \in Tasks |->
               IF \E i \in Slots : own[i] = t
               THEN LET i == CHOOSE i \in Slots : own[i] = t
                    IN  [IdleTask EXCEPT !.pc = "rtr_wait", !.op = "rtr",
                                         !.ci_id = ids[i], !.ci_msg = t,
                                         !.slot = i]
               ELSE IdleTask]
  /\ obs = [written |-> << >>, sent |-> << >>, ndone |-> 0,
            asserted |-> FALSE, accepted |-> << >>, delivered |-> << >>,
            rxrun |-> << >>, remote |-> Requested(own, ids, 0),
            nrtr |-> Len(Requested(own, ids, 0)),
            conv |-> [nbytes |-> 0, todlc |-> 0, rbytes |-> 0,
                      dlc |-> 0, tobytes |-> 0, rdlc |-> 0,
                      applied |-> {}],
            nopencalls |-> 0, nlast |-> 0, closelog |-> << >>,
            nwork |-> 0, refused |-> FALSE,
            nsetup |-> 1, nshutdown |-> 0, calls |-> << "setup" >>]

InitRtrPending ==
  /\ config \in RtrConfigs
  /\ cd_ocount = 1
  /\ cd_closesem = sem_init(1)
  /\ cd_xmit = [tx_sem |-> sem_init(0), tx_head |-> 0, tx_queue |-> 0,
                tx_tail |-> 0, tx_buffer |-> Fifo0]
  /\ cd_ntxwaiters = 0
  /\ cd_recv = [rx_sem |-> sem_init(0), rx_head |-> 0, rx_tail |-> 0,
                rx_buffer |-> Fifo0]
  /\ cd_nrxwaiters = 0
  /\ cd_error = 0
  /\ cd_work = FALSE
  /\ lower = [hw |-> << >>, sync |-> FALSE, failnext |-> FALSE,
              nfaults |-> 0, txint |-> FALSE, rxint |-> TRUE,
              nrx |-> 0, rxret |-> 0, depth |-> HwDepth]
  /\ \E own \in Owners :
       \E ids \in [Slots -> RtrIds \cup {0}] :
         /\ \A i \in Slots : (ids[i] = 0) <=> (own[i] = NULL)
         /\ RtrPending(own, ids)

NextRtrPending ==
  \/ Receive
  \/ \E t \in Tasks : RtrResume(t)
  \/ \E t \in Tasks : Read(t)
  \/ \E t \in Tasks : ReadResume(t)

SpecRtrPending == InitRtrPending /\ [][NextRtrPending]_vars

\* the slots that hold a request for the id of the frame being received
Matching(id) ==
  { i \in Slots : cd_rtr[i].cr_msg # NULL /\ cd_rtr[i].cr_id = id }

RxHeld == { k \in DOMAIN cd_recv.rx_buffer :
              Dist(cd_recv.rx_head, k) < Dist(cd_recv.rx_head, cd_recv.rx_tail) }

-----------------------------------------------------------------------------
(* can_read called with buffers that hold at least the smallest message *)

FitLens == { n \in ReadLens : n >= CAN_MSGLEN(0) }

ReadFit(t) ==
  \E buflen \in FitLens, nonblock \in BOOLEAN : ReadCall(t, buflen, nonblock)

NextReadFit ==
  \/ Receive
  \/ \E t \in Tasks : ReadFit(t)
  \/ \E t \in Tasks : ReadResume(t)

SpecReadFit == DevInit(1, 0, RxConfigs) /\ [][NextReadFit]_vars

\* the sticky error is latched when thread t calls read (line 529; a read
\* that has waited does not look at it again)
Latched(t) == config.errors /\ cd_error # 0 /\ task[t].pc = "idle"

\* what the message at rx_head takes in the caller's buffer
HeadLen(rc) == CAN_MSGLEN(can_dlc2bytes(config.fd, rc.rx_buffer[rc.rx_head].ch_dlc))

\* thread t comes back, in this step, from a read with a buffer of buflen
\* bytes, with a value that is no error
ReadGives(t, buflen) ==
  /\ buflen >= CAN_MSGLEN(0)
  /\ task'[t].pc = "idle"
  /\ task'[t].op = "read"
  /\ task'[t].ret >= 0

\* a step in which a read of thread t returns satisfies P(t, buflen)
ReadReturns(P(_, _)) ==
  \A t \in Tasks :
    /\ \A buflen \in ReadLens, nonblock \in BOOLEAN :
         ReadCall(t, buflen, nonblock) => P(t, buflen)
    /\ (task[t].pc = "rx_wait" /\ ReadResume(t)) => P(t, task[t].buflen)

ReadPositive(t, buflen) ==
  ReadGives(t, buflen)
  => /\ task'[t].ret > 0
     /\ task'[t].ret = SumLen(task'[t].got)

\* C31: a read with a buffer of at least CAN_MSGLEN(0) bytes that returns
\* no error returns a positive value, the total length of the messages it
\* has copied.
C31_ReadZeroOnlyShort == [][ReadReturns(ReadPositive)]_vars

ReadExact(t, buflen) ==
  ReadGives(t, buflen)
  => LET got == task'[t].got
         ret == task'[t].ret
     IN  /\ ret = SumLen(got)
         /\ ret <= buflen
         /\ IF Latched(t)
            THEN /\ cd_recv' = cd_recv
                 /\ IF buflen < CAN_MSGLEN(CAN_ERROR_DLC)
                    THEN got = << >> /\ cd_error' = cd_error
                    ELSE got = << ErrorMsg(cd_error) >> /\ cd_error' = 0
            ELSE /\ Dist(cd_recv.rx_head, cd_recv'.rx_head) = Len(got)
                 /\ Len(got) <= Dist(cd_recv.rx_head, cd_recv.rx_tail)
                 /\ \A i \in DOMAIN got :
                      got[i] = cd_recv.rx_buffer[(cd_recv.rx_head + i - 1)
                                                   % config.fifosize]
                 /\ \/ cd_recv'.rx_head = cd_recv'.rx_tail
                    \/ ret + HeadLen(cd_recv') > buflen
                 /\ ret = 0 => /\ cd_recv.rx_head # cd_recv.rx_tail
                               /\ HeadLen(cd_recv) > buflen

\* C31 (amended): a read with a buffer of at least CAN_MSGLEN(0) bytes
\* that returns no error returns the total length of the whole messages
\* it has copied, which is at most the buffer's length.  With the sticky
\* error latched at the call that is the error message, or nothing (0, the
\* error still latched) when the buffer is shorter than
\* CAN_MSGLEN(CAN_ERROR_DLC), and rx_head stays.  Otherwise the messages copied are those from rx_head
\* on, rx_head has advanced by their number, and the copy ends at the
\* first message that does not fit or with the FIFO empty; the value is 0
\* exactly when the message at rx_head is longer than the buffer, and that
\* message stays in the FIFO.
C31_ReadExact == [][ReadReturns(ReadExact)]_vars

\* a read with room for the smallest message has returned 0 with the
\* message at rx_head still in the FIFO
C31_Witness ==
  \E t \in Tasks :
    /\ Returned(t, "read")
    /\ task[t].ret = 0
    /\ task[t].got = << >>
    /\ cd_recv.rx_head # cd_recv.rx_tail

=============================================================================
